---- MODULE Spec2Model ----
(***************************************************************************)
(* CountTree (src/src/count.rs): a rank-indexed AVL tree.  Nodes cache the *)
(* size (count) and height of their subtree; get and insert descend by     *)
(* position, insert rebalances on the way back, from_iter builds a tree    *)
(* from a sequence.                                                        *)
(*                                                                         *)
(* The walk engine (walk, walk_mut), the rotations and insert_before are   *)
(* default methods of the Node / NodeMut traits, which live outside        *)
(* count.rs; they are modelled from spec.md (sections 4.1, 4.2, 4.3).      *)
(***************************************************************************)
EXTENDS Integers, Sequences, FiniteSets

\* Longest sequence built by insert under the descending value supply.
MaxLen == 6
\* Longest sequence built by insert under the ascending value supply.
MaxProbe == 4
\* Longest sequence built by insert when the values are all equal.
MaxDeep == 11
\* Longest input handed to from_iter.
MaxBuild == 24
\* First value of the descending value supply (the 6 of spec.md 8, scenario 1).
FirstDesc == 6
\* Width of CountNode::height.
HeightBits == 16

VARIABLES
    tree,           \* CountTree.0: Nil or the root node
    model,          \* the reference list: what the operations so far imply
    ops,            \* the <<index, value>> of every insert that returned, in order
                    \* (kept only while the supplied values differ)
    origin,         \* how the tree was made: "new" (CountTree::new) or "from_iter"
    step,           \* the caller's value supply: 1 ascending, -1 descending, 0 constant
    last,           \* the last completed call and what it returned
    pc,             \* "idle", or the place from_iter has reached
    iter,           \* from_iter: the items not yet consumed
    node,           \* from_iter: the local `node`
    count,          \* from_iter: the local `count`
    balanced_till   \* from_iter: the local `balanced_till`

vars == <<tree, model, ops, origin, step, last, pc, iter, node, count, balanced_till>>

----------------------------------------------------------------------------
\* Arithmetic helpers.  The u32 counters (count, rcount, rotate_points) stay
\* below 2^31 for every tree the bounds allow, so they are plain naturals here;
\* the u16 height keeps its width.

Pow2(n) == 2 ^ n

Max(a, b) == IF a >= b THEN a ELSE b

Abs(a) == IF a >= 0 THEN a ELSE -a

U16(v) == v % Pow2(HeightBits)

\* Bit k (from 0) of a.
Bit(a, k) == (a \div Pow2(k)) % 2

\* The bits of a & b from bit k up.
RECURSIVE BitAndFrom(_, _, _)
BitAndFrom(a, b, k) ==
    IF Pow2(k) > a \/ Pow2(k) > b THEN 0
    ELSE Bit(a, k) * Bit(b, k) * Pow2(k) + BitAndFrom(a, b, k + 1)

\* a & b and a | b
BitAnd(a, b) == BitAndFrom(a, b, 0)

BitOr(a, b) == a + b - BitAnd(a, b)

Shr(a, k) == a \div Pow2(k)

\* F(x), with x evaluated once before F uses it.
Bind(x, F(_)) == CHOOSE r \in {F(v) : v \in {x}} : TRUE

----------------------------------------------------------------------------
\* CountNode

Nil == [nil |-> TRUE]

IsNil(t) == "nil" \in DOMAIN t

\* CountNode::new
new(val) == [val |-> val, left |-> Nil, right |-> Nil, count |-> 1, height |-> 0]

\* CountNode::lcount, CountNode::rcount
lcount(n) == IF IsNil(n.left) THEN 0 ELSE n.left.count

rcount(n) == IF IsNil(n.right) THEN 0 ELSE n.right.count

\* CountNode::balance_factor
balance_factor(n) ==
    IF n.count = 1 THEN 0
    ELSE IF IsNil(n.left) THEN -1 - n.right.height
    ELSE IF IsNil(n.right) THEN 1 + n.left.height
    ELSE n.left.height - n.right.height

\* update_stats as it would be if it recomputed the height alone
update_stats_height_only(n) ==
    LET h == Max(IF IsNil(n.left) THEN 0 ELSE n.left.height,
                 IF IsNil(n.right) THEN 0 ELSE n.right.height)
    IN  [n EXCEPT !.height = IF ~IsNil(n.left) \/ ~IsNil(n.right) THEN U16(h + 1) ELSE h]

\* CountNode::update_stats
update_stats(n) ==
    LET c == lcount(n) + rcount(n) + 1
        h == Max(IF IsNil(n.left) THEN 0 ELSE n.left.height,
                 IF IsNil(n.right) THEN 0 ELSE n.right.height)
    IN  [n EXCEPT !.count = c,
                  !.height = IF c > 1 THEN U16(h + 1) ELSE h]

\* NodeMut::insert_left / insert_right: attach and recompute the statistics.
insert_left(n, t) == update_stats([n EXCEPT !.left = t])

insert_right(n, t) == update_stats([n EXCEPT !.right = t])

\* NodeMut::rotate_right: the left child becomes the root of the subtree.
rotate_right(n) ==
    IF IsNil(n.left) THEN [ok |-> FALSE, node |-> n]
    ELSE Bind(insert_left(n, n.left.right),
              LAMBDA down : [ok |-> TRUE, node |-> insert_right(n.left, down)])

\* NodeMut::rotate_left: the mirror image.
rotate_left(n) ==
    IF IsNil(n.right) THEN [ok |-> FALSE, node |-> n]
    ELSE Bind(insert_right(n, n.right.left),
              LAMBDA down : [ok |-> TRUE, node |-> insert_left(n.right, down)])

\* rebalance as it would be if it tolerated a balance factor of 2 or -2
rebalance_late(n) ==
    IF balance_factor(n) > 2 THEN
        Bind(IF ~IsNil(n.left) /\ balance_factor(n.left) < 0
             THEN rotate_left(n.left) ELSE [ok |-> TRUE, node |-> n.left],
             LAMBDA inner :
                 Bind(rotate_right([n EXCEPT !.left = inner.node]),
                      LAMBDA outer : [ok |-> inner.ok /\ outer.ok, node |-> outer.node]))
    ELSE IF balance_factor(n) < -2 THEN
        Bind(IF ~IsNil(n.right) /\ balance_factor(n.right) > 0
             THEN rotate_right(n.right) ELSE [ok |-> TRUE, node |-> n.right],
             LAMBDA inner :
                 Bind(rotate_left([n EXCEPT !.right = inner.node]),
                      LAMBDA outer : [ok |-> inner.ok /\ outer.ok, node |-> outer.node]))
    ELSE [ok |-> TRUE, node |-> n]

\* rebalance as it would be if the inner rotations were swapped between the
\* two cases
rebalance_swapped(n) ==
    IF balance_factor(n) > 1 THEN
        Bind(IF ~IsNil(n.left) /\ balance_factor(n.left) < 0
             THEN rotate_right(n.left) ELSE [ok |-> TRUE, node |-> n.left],
             LAMBDA inner :
                 Bind(rotate_right([n EXCEPT !.left = inner.node]),
                      LAMBDA outer : [ok |-> inner.ok /\ outer.ok, node |-> outer.node]))
    ELSE IF balance_factor(n) < -1 THEN
        Bind(IF ~IsNil(n.right) /\ balance_factor(n.right) > 0
             THEN rotate_left(n.right) ELSE [ok |-> TRUE, node |-> n.right],
             LAMBDA inner :
                 Bind(rotate_left([n EXCEPT !.right = inner.node]),
                      LAMBDA outer : [ok |-> inner.ok /\ outer.ok, node |-> outer.node]))
    ELSE [ok |-> TRUE, node |-> n]

\* CountNode::rebalance.  ok is FALSE when an unwrap of a rotation panics.
rebalance(n) ==
    IF balance_factor(n) > 1 THEN
        Bind(IF ~IsNil(n.left) /\ balance_factor(n.left) < 0
             THEN rotate_left(n.left) ELSE [ok |-> TRUE, node |-> n.left],
             LAMBDA inner :
                 Bind(rotate_right([n EXCEPT !.left = inner.node]),
                      LAMBDA outer : [ok |-> inner.ok /\ outer.ok, node |-> outer.node]))
    ELSE IF balance_factor(n) < -1 THEN
        Bind(IF ~IsNil(n.right) /\ balance_factor(n.right) > 0
             THEN rotate_right(n.right) ELSE [ok |-> TRUE, node |-> n.right],
             LAMBDA inner :
                 Bind(rotate_left([n EXCEPT !.right = inner.node]),
                      LAMBDA outer : [ok |-> inner.ok /\ outer.ok, node |-> outer.node]))
    ELSE [ok |-> TRUE, node |-> n]

----------------------------------------------------------------------------
\* Observers of a whole tree

RECURSIVE InOrder(_)
InOrder(t) ==
    IF IsNil(t) THEN <<>> ELSE InOrder(t.left) \o <<t.val>> \o InOrder(t.right)

RECURSIVE Nodes(_)
Nodes(t) ==
    IF IsNil(t) THEN {} ELSE {t} \cup Nodes(t.left) \cup Nodes(t.right)

\* CountTree::len
len(t) == IF IsNil(t) THEN 0 ELSE t.count

----------------------------------------------------------------------------
\* The walk engine, get and insert

InsertAt(s, i, v) == SubSeq(s, 1, i) \o <<v>> \o SubSeq(s, i + 1, Len(s))

\* get's closure as it would be if Right left up_count one short
get_step_short(n, index, up_count) ==
    LET cur_index == lcount(n) + up_count
    IN  IF index < cur_index THEN [action |-> "Left", up_count |-> up_count]
        ELSE IF index = cur_index THEN [action |-> "Stop", up_count |-> up_count]
        ELSE [action |-> "Right", up_count |-> cur_index]

\* The decision closure of CountTree::get.
get_step(n, index, up_count) ==
    LET cur_index == lcount(n) + up_count
    IN  IF index < cur_index THEN [action |-> "Left", up_count |-> up_count]
        ELSE IF index = cur_index THEN [action |-> "Stop", up_count |-> up_count]
        ELSE [action |-> "Right", up_count |-> cur_index + 1]

\* Node::walk under the closure of get: descend until Stop.  A direction whose
\* child is missing ends the walk with nothing found (ran_off).
RECURSIVE walk_get(_, _, _)
walk_get(n, index, up_count) ==
    Bind(get_step(n, index, up_count),
         LAMBDA d :
             IF d.action = "Stop" THEN [found |-> TRUE, val |-> n.val, ran_off |-> FALSE]
             ELSE Bind(IF d.action = "Left" THEN n.left ELSE n.right,
                       LAMBDA child :
                           IF IsNil(child)
                           THEN [found |-> FALSE, val |-> 0, ran_off |-> TRUE]
                           ELSE walk_get(child, index, d.up_count)))

\* CountTree::get.  outcome "none" is None, "some" is Some(val); the assert
\* after the walk panics when the walk stored nothing.
get(t, index) ==
    IF index >= len(t) THEN [outcome |-> "none", val |-> 0, ran_off |-> FALSE]
    ELSE Bind(walk_get(t, index, 0),
              LAMBDA w : [outcome |-> IF w.found THEN "some" ELSE "panic_assert",
                          val |-> w.val, ran_off |-> w.ran_off])

\* insert's closure as it would be if Right left up_count one short
insert_step_short(n, index, up_count) ==
    LET cur_index == lcount(n) + up_count
    IN  IF index < cur_index THEN [action |-> "Left", up_count |-> up_count]
        ELSE IF index = cur_index THEN [action |-> "Stop", up_count |-> up_count]
        ELSE [action |-> "Right", up_count |-> cur_index]

\* The decision closure of the middle case of CountTree::insert.
insert_step(n, index, up_count) ==
    LET cur_index == lcount(n) + up_count
    IN  IF index < cur_index THEN [action |-> "Left", up_count |-> up_count]
        ELSE IF index = cur_index THEN [action |-> "Stop", up_count |-> up_count]
        ELSE [action |-> "Right", up_count |-> cur_index + 1]

\* NodeMut::insert_before(new_node, step_out) with step_out = rebalance: the new
\* node takes over the stopped node's left subtree and becomes the stopped
\* node's left child; the fix-up runs at the new node and at the stopped node.
\* calls collects the nodes rebalance was invoked on.
insert_before(n, new_node) ==
    Bind(insert_left(new_node, n.left),
         LAMBDA taken :
             Bind(rebalance(taken),
                  LAMBDA fix_new :
                      Bind(insert_left(n, fix_new.node),
                           LAMBDA attached :
                               Bind(rebalance(attached),
                                    LAMBDA fix_self :
                                        [ok |-> fix_new.ok /\ fix_self.ok,
                                         node |-> fix_self.node,
                                         calls |-> {taken, attached}]))))

\* The way back of walk_mut through node n, whose child in direction action the
\* walk has left as sub.node: re-attach it, then fix up (rebalance) n.
step_out(n, action, sub) ==
    Bind(IF action = "Left" THEN insert_left(n, sub.node) ELSE insert_right(n, sub.node),
         LAMBDA back :
             Bind(rebalance(back),
                  LAMBDA fix : [ok |-> sub.ok /\ fix.ok, node |-> fix.node,
                                calls |-> sub.calls \cup {back}]))

\* NodeMut::walk_mut for the middle case of insert: descend by insert_step, act
\* (insert_before) where the walk stops, then fix up (rebalance) every ancestor
\* of that node, innermost first.
RECURSIVE walk_mut_insert(_, _, _, _)
walk_mut_insert(n, index, up_count, new_node) ==
    Bind(insert_step(n, index, up_count),
         LAMBDA d :
             Bind(IF d.action = "Left" THEN n.left ELSE n.right,
                  LAMBDA child :
                      IF d.action = "Stop" \/ IsNil(child) THEN insert_before(n, new_node)
                      ELSE Bind(walk_mut_insert(child, index, d.up_count, new_node),
                                LAMBDA sub : step_out(n, d.action, sub))))

\* NodeMut::walk_mut for the append case of insert: always Right; the walk stops
\* at the node with no right child, which gets the new node as its right child.
RECURSIVE walk_mut_append(_, _)
walk_mut_append(n, new_node) ==
    IF IsNil(n.right) THEN [ok |-> TRUE, node |-> insert_right(n, new_node), calls |-> {}]
    ELSE Bind(walk_mut_append(n.right, new_node),
              LAMBDA sub : step_out(n, "Right", sub))

\* insert as it would be if an index past the end were taken as an append
insert_clamped(t, index, value) ==
    IF len(t) = 0 THEN
        [outcome |-> "ok", tree |-> new(value), calls |-> {}]
    ELSE
        Bind(IF index < len(t) THEN walk_mut_insert(t, index, 0, new(value))
             ELSE walk_mut_append(t, new(value)),
             LAMBDA w : [outcome |-> IF w.ok THEN "ok" ELSE "panic_rotate",
                         tree |-> w.node, calls |-> w.calls])

\* CountTree::insert.  outcome: "ok", "panic_index" (index out of bounds!) or
\* "panic_rotate" (an unwrap of a failed rotation inside rebalance).
insert(t, index, value) ==
    IF len(t) = 0 /\ index = 0 THEN
        [outcome |-> "ok", tree |-> new(value), calls |-> {}]
    ELSE IF index < len(t) THEN
        Bind(walk_mut_insert(t, index, 0, new(value)),
             LAMBDA w : [outcome |-> IF w.ok THEN "ok" ELSE "panic_rotate",
                         tree |-> w.node, calls |-> w.calls])
    ELSE IF index = len(t) THEN
        Bind(walk_mut_append(t, new(value)),
             LAMBDA w : [outcome |-> IF w.ok THEN "ok" ELSE "panic_rotate",
                         tree |-> w.node, calls |-> w.calls])
    ELSE [outcome |-> "panic_index", tree |-> t, calls |-> {}]

----------------------------------------------------------------------------
\* from_iter

is_power(v) == IF v = 0 THEN FALSE ELSE BitAnd(v, v - 1) = 0

exp_floor_log(v) ==
    IF v = 0 \/ is_power(v) THEN v
    ELSE LET or_shr(e, k) == Bind(e, LAMBDA x : BitOr(x, Shr(x, k)))
         IN  Shr(or_shr(or_shr(or_shr(or_shr(or_shr(v - 1, 1), 2), 4), 8), 16) + 1, 1)

\* The inner while loop of from_iter's consuming loop: rotate right once for
\* every trailing one bit of rcount.
RECURSIVE rotate_trailing(_, _, _)
rotate_trailing(n, rcnt, rotate_points) ==
    IF BitAnd(rcnt, rotate_points) = rotate_points THEN
        Bind(rotate_right(n),
             LAMBDA r :
                 IF ~r.ok THEN r
                 ELSE Bind(BitOr(rotate_points * 2, 1),
                           LAMBDA points : rotate_trailing(r.node, rcnt, points)))
    ELSE [ok |-> TRUE, node |-> n]

\* The walk_mut of from_iter's corrective pass: while the node is left-heavy,
\* rotate it right and go Right; the walk re-attaches each subtree on its way
\* back.
RECURSIVE fix_walk(_)
fix_walk(n) ==
    IF balance_factor(n) > 1 THEN
        Bind(rotate_right(n),
             LAMBDA r :
                 IF ~r.ok \/ IsNil(r.node.right) THEN r
                 ELSE Bind(fix_walk(r.node.right),
                           LAMBDA sub : [ok |-> sub.ok,
                                         node |-> insert_right(r.node, sub.node)]))
    ELSE [ok |-> TRUE, node |-> n]

----------------------------------------------------------------------------
\* The state machine

\* The k-th value (from 0) the caller supplies.
Value(k) == IF step = 1 THEN 1 + k ELSE IF step = -1 THEN FirstDesc - k ELSE 0

\* How long the caller lets the sequence grow by insert.
Cap == IF step = -1 THEN MaxLen ELSE IF step = 1 THEN MaxProbe ELSE MaxDeep

NoCall ==
    [op |-> "new", index |-> 0, outcome |-> "ok", val |-> 0, calls |-> {},
     ran_off |-> FALSE]

Idle == pc = "idle"

Fresh ==
    /\ tree = Nil
    /\ model = <<>>
    /\ ops = <<>>
    /\ origin = "new"
    /\ last = NoCall
    /\ pc = "idle"
    /\ iter = <<>>
    /\ node = Nil
    /\ count = 0
    /\ balanced_till = 0

\* The caller supplies FirstDesc, FirstDesc - 1, ...
Init == step = -1 /\ Fresh

\* The caller supplies 1, 2, ...
InitProbe == step = 1 /\ Fresh

\* The caller supplies equal values.
InitDeep == step = 0 /\ Fresh

\* ct.insert(index, value), legal or not
Insert(index) ==
    /\ Idle
    /\ Len(model) < Cap
    /\ \E value \in {Value(Len(model))} : \E r \in {insert(tree, index, value)} :
           /\ tree' = r.tree
           /\ model' = IF r.outcome = "ok" /\ index <= Len(model)
                       THEN InsertAt(model, index, value) ELSE model
           /\ ops' = IF r.outcome = "ok" /\ step # 0
                     THEN Append(ops, <<index, value>>) ELSE ops
           /\ last' = [op |-> "insert", index |-> index, outcome |-> r.outcome,
                       val |-> value, calls |-> r.calls, ran_off |-> FALSE]
           /\ pc' = IF r.outcome = "panic_rotate" THEN "panicked" ELSE "idle"
    /\ UNCHANGED <<origin, step, iter, node, count, balanced_till>>

\* ct.get(index)
Get(index) ==
    /\ Idle
    /\ \E r \in {get(tree, index)} :
           /\ last' = [op |-> "get", index |-> index, outcome |-> r.outcome,
                       val |-> r.val, calls |-> {}, ran_off |-> r.ran_off]
           /\ pc' = IF r.outcome = "panic_assert" THEN "panicked" ELSE "idle"
    /\ UNCHANGED <<tree, model, ops, origin, step, iter, node, count, balanced_till>>

FromIterDone(outcome) ==
    [op |-> "from_iter", index |-> 0, outcome |-> outcome, val |-> 0, calls |-> {},
     ran_off |-> FALSE]

\* from_iter(iterable), up to the first iter.next()
FromIterStart(n) ==
    /\ Idle
    /\ last = NoCall
    /\ origin' = "from_iter"
    /\ \E input \in {[k \in 1 .. n |-> Value(k - 1)]} :
           /\ model' = input
           /\ IF n = 0
              THEN /\ last' = FromIterDone("ok")
                   /\ UNCHANGED <<pc, iter, node, count>>
              ELSE /\ node' = new(input[1])
                   /\ count' = 1
                   /\ iter' = Tail(input)
                   /\ pc' = "loop"
                   /\ UNCHANGED last
    /\ UNCHANGED <<tree, ops, step, balanced_till>>

\* the pass as it would be if the tree so far went to the right of the new node
FromIterPush_right ==
    /\ pc = "loop"
    /\ iter # <<>>
    /\ \E new_node \in {insert_right(new(Head(iter)), node)} :
       \E rcnt \in {IF is_power(count + 2) THEN Shr(count + 1, 1) ELSE count + 1} :
       \E r \in {rotate_trailing(new_node, rcnt, 1)} :
           /\ node' = r.node
           /\ count' = count + 1
           /\ iter' = Tail(iter)
           /\ pc' = IF r.ok THEN "loop" ELSE "panicked"
           /\ last' = IF r.ok THEN last ELSE FromIterDone("panic_rotate")
    /\ UNCHANGED <<tree, model, ops, origin, step, balanced_till>>

\* one pass of `while let Some(item) = iter.next()`
FromIterPush ==
    /\ pc = "loop"
    /\ iter # <<>>
    /\ \E new_node \in {insert_left(new(Head(iter)), node)} :
       \E rcnt \in {IF is_power(count + 2) THEN Shr(count + 1, 1) ELSE count + 1} :
       \E r \in {rotate_trailing(new_node, rcnt, 1)} :
           /\ node' = r.node
           /\ count' = count + 1
           /\ iter' = Tail(iter)
           /\ pc' = IF r.ok THEN "loop" ELSE "panicked"
           /\ last' = IF r.ok THEN last ELSE FromIterDone("panic_rotate")
    /\ UNCHANGED <<tree, model, ops, origin, step, balanced_till>>

\* the iterator is exhausted: balanced_till and the first count of the pass
FromIterBalance ==
    /\ pc = "loop"
    /\ iter = <<>>
    /\ balanced_till' = exp_floor_log(count + 1) - 1
    /\ count' = lcount(node) + 1
    /\ pc' = "final"
    /\ UNCHANGED <<tree, model, ops, origin, step, last, iter, node>>

\* one pass of `while count > balanced_till`
FromIterRotate ==
    /\ pc = "final"
    /\ count > balanced_till
    /\ \E r \in {rotate_right(node)} :
       \E w \in {IF r.ok /\ ~IsNil(r.node.right)
                  THEN fix_walk(r.node.right) ELSE [ok |-> FALSE, node |-> Nil]} :
           IF w.ok
           THEN /\ node' = [r.node EXCEPT !.right = w.node]
                /\ count' = lcount(r.node) + 1
                /\ UNCHANGED <<pc, last>>
           ELSE /\ pc' = "panicked"
                /\ last' = FromIterDone("panic_rotate")
                /\ UNCHANGED <<node, count>>
    /\ UNCHANGED <<tree, model, ops, origin, step, iter, balanced_till>>

\* CountTree(Some(node))
FromIterReturn ==
    /\ pc = "final"
    /\ count <= balanced_till
    /\ tree' = node
    /\ last' = FromIterDone("ok")
    /\ pc' = "idle"
    /\ node' = Nil
    /\ count' = 0
    /\ balanced_till' = 0
    /\ UNCHANGED <<model, ops, origin, step, iter>>

Next ==
    \/ \E index \in 0 .. Len(model) + 1 : Insert(index)
    \/ \E n \in 0 .. MaxBuild : FromIterStart(n)
    \/ FromIterPush
    \/ FromIterBalance
    \/ FromIterRotate
    \/ FromIterReturn

NextProbe ==
    \/ Next
    \/ \E index \in 0 .. Len(model) + 1 : Get(index)

\* Construction and insert, distinct values.
Spec == Init /\ [][Next]_vars

\* Construction, insert and get, distinct values.
SpecProbe == InitProbe /\ [][NextProbe]_vars

\* Construction and insert on larger trees, equal values.
SpecDeep == InitDeep /\ [][Next]_vars

----------------------------------------------------------------------------
\* Properties

\* Every node of t has a balance factor within [-1, 1].
Balanced(t) == \A n \in Nodes(t) : Abs(balance_factor(n)) <= 1

\* Every node of t caches the size of its subtree.
CountOk(t) == \A n \in Nodes(t) : n.count = 1 + lcount(n) + rcount(n)

InsertDone == Idle /\ last.op = "insert" /\ last.outcome = "ok"

FromIterReturned == Idle /\ last.op = "from_iter" /\ last.outcome = "ok"

\* The last insert rotated at some node.
Rotated == \E n \in last.calls : Abs(balance_factor(n)) > 1

\* What get returns for every index of t, as a sequence.
Gets(t) == [i \in 1 .. len(t) |-> get(t, i - 1)]

\* C1: the in-order sequence of the tree, and get(0), ..., get(len() - 1), equal
\* the reference list obtained by applying the same inserts to a plain sequence.
C1_OrderPreserved ==
    Idle => /\ InOrder(tree) = model
            /\ len(tree) = Len(model)
            /\ \A i \in 1 .. Len(model) :
                   Gets(tree)[i].outcome = "some" /\ Gets(tree)[i].val = model[i]

\* an insert in the middle, at a node that had a left subtree, has returned
C1_Witness ==
    /\ InsertDone
    /\ Len(ops) >= 5
    /\ last.index > 0
    /\ last.index < Len(model) - 1
    /\ Rotated

\* C2: after every completed insert, in any sequence of legal inserts from the
\* empty tree, every node has |balance_factor| <= 1.
C2_BalanceAfterInsert == (InsertDone /\ origin = "new") => Balanced(tree)

\* C3: after every completed insert or bulk construction every node's cached
\* count is 1 + count(left) + count(right), and len() is the number of elements.
C3_CountInvariant ==
    Idle => /\ CountOk(tree)
            /\ len(tree) = Len(InOrder(tree))
            /\ len(tree) = Len(model)

\* an insert that rotated has returned
C3_Witness == InsertDone /\ Rotated /\ Len(model) >= 5

\* C4: get(index) returns None exactly when index >= len(), otherwise the value
\* at in-order position index, never choosing a direction whose child is
\* missing; and get leaves the tree unchanged.
C4_GetResult ==
    last.op = "get" =>
        /\ last.outcome = "none" <=> last.index >= len(tree)
        /\ last.index < len(tree) =>
               /\ last.outcome = "some"
               /\ last.val = InOrder(tree)[last.index + 1]
               /\ last.val = model[last.index + 1]
        /\ ~last.ran_off

C4_Get ==
    /\ []C4_GetResult
    /\ [][last'.op = "get" => tree' = tree /\ model' = model]_vars

\* get has found an element below the root, to the right of it
C4_Witness ==
    /\ last.op = "get"
    /\ last.outcome = "some"
    /\ last.index > lcount(tree) + 1
    /\ last.index < len(tree) - 1

\* C5: insert(index, value) with index > len() panics and changes nothing.
C5_InsertOutOfBounds ==
    [][(last'.op = "insert" /\ last'.index > len(tree)) =>
           /\ last'.outcome = "panic_index"
           /\ tree' = tree
           /\ model' = model]_vars

\* an insert past the end of a tree of several nodes has panicked
C5_Witness ==
    /\ last.op = "insert"
    /\ last.outcome = "panic_index"
    /\ last.index > len(tree)
    /\ len(tree) >= 3

\* C6: from_iter(s) has len() = Len(s) and iterates as s.
C6_FromIterRoundTrip ==
    FromIterReturned => len(tree) = Len(model) /\ InOrder(tree) = model

\* from_iter has returned a tree whose corrective pass had work to do
C6_Witness == FromIterReturned /\ Len(model) >= 12 /\ ~is_power(Len(model) + 1)

\* C7: every node of the tree from_iter returns has |balance_factor| <= 1.
C7_FromIterBalanced == (FromIterReturned /\ Len(model) >= 1) => Balanced(tree)


\* spec.md 8, scenario 1: 6, 5, 4, 3, 2, 1 inserted at index 0, in that order
Scenario == <<<<0, 6>>, <<0, 5>>, <<0, 4>>, <<0, 3>>, <<0, 2>>, <<0, 1>>>>

\* C8 as stated: the scenario yields the sequence 6,5,4,3,2,1 with root 4 and
\* root balance factor 0.
C8_AsStated ==
    (Idle /\ origin = "new" /\ ops = Scenario) =>
        /\ InOrder(tree) = <<6, 5, 4, 3, 2, 1>>
        /\ tree.val = 4
        /\ balance_factor(tree) = 0

\* C8 amended: the scenario yields the sequence 1,2,3,4,5,6 with root 3 and
\* root balance factor 0.
C8_Amended ==
    (Idle /\ origin = "new" /\ ops = Scenario) =>
        /\ InOrder(tree) = <<1, 2, 3, 4, 5, 6>>
        /\ tree.val = 3
        /\ balance_factor(tree) = 0

\* the scenario has run
C8_Witness == Idle /\ origin = "new" /\ ops = Scenario /\ last.op = "insert"

\* C9: no rotation made by rebalance during an insert, or by from_iter, fails:
\* no unwrap of a rotation's result (or of the right child) panics.
C9_NoRotationFailure == pc # "panicked" /\ last.outcome # "panic_rotate"

\* an insert has made rebalance rotate twice (left child first)
C9_Witness ==
    /\ InsertDone
    /\ \E n \in last.calls :
           balance_factor(n) > 1 /\ balance_factor(n.left) < 0

\* rebalance at n leaves a balanced root when n was out of balance, and leaves n
\* alone when it was not.
RebalanceRestores(n) ==
    LET r == rebalance(n)
    IN  /\ r.ok
        /\ Abs(balance_factor(n)) > 1 => Abs(balance_factor(r.node)) <= 1
        /\ Abs(balance_factor(n)) <= 1 => r.node = n

\* C10: every rebalance the insert fix-up invokes restores |balance factor| <= 1
\* at the root of its subtree, and leaves a balanced node unchanged.
C10_RebalanceRestores ==
    last.op = "insert" => \A n \in last.calls : RebalanceRestores(n)


====
